---- MODULE Spec2Model ----
(***************************************************************************)
(* Model of src/src/index.ts, the entry point of the katpool payment app:  *)
(* the top-level startup sequence (environment checks, payment interval,   *)
(* RPC connection and readiness check, transaction manager set-up), the    *)
(* node-cron callback that runs the balance transfer and the 10 minute     *)
(* progress timer.                                                         *)
(*                                                                         *)
(* JavaScript numbers are modelled as exact rationals (records num/den);   *)
(* the configured payoutsPerDay values are integers and halves, which are  *)
(* exact in binary floating point.  A divisor of zero gives Infinity       *)
(* (den = 0), as in JavaScript.                                            *)
(***************************************************************************)
EXTENDS Integers, FiniteSets, Sequences, TLC

\* ------------------------------------------------------------------ bounds
\* Largest numerator of a configured payoutsPerDay (over denominators 1, 2).
MaxPayoutsNum == 26
\* Smallest numerator is -MaxNegPayouts.
MaxNegPayouts == 1
\* Largest number of transferBalances() calls that are pending at once.
MaxInFlight == 2

\* --------------------------------------------------------------- constants
HoursPerDay == 24
MinutesPerHour == 60
\* setInterval period of the progress indicator, in minutes (10 * 60 * 1000 ms).
HeartbeatMinutes == 10
\* config.payoutsPerDay || 2
DefaultPayoutsPerDay == 2
\* paymentInterval < 1 || paymentInterval > 24
MinInterval == 1
MaxInterval == 24

\* ------------------------------------------------------------------ values
Undefined == "<undefined>"
\* let transactionManager: trxManager | null = null
Null == [constructed |-> FALSE, network |-> Undefined, key |-> Undefined,
         database |-> Undefined]
\* What process.env.X or config.network can hold: absent, empty, or a value.
EnvValues == {Undefined, "", "value"}
EnvNames == {"TREASURY_PRIVATE_KEY", "PUSHGATEWAY", "DATABASE_URL"}

\* JavaScript truthiness of a string-or-undefined value: !v
Falsy(v) == v = Undefined \/ v = ""

\* ---------------------------------------------------------------- numbers
Abs(n) == IF n < 0 THEN -n ELSE n

RECURSIVE GCD(_, _)
GCD(a, b) == IF b = 0 THEN a ELSE GCD(b, a % b)

\* A number n/d in lowest terms with d >= 0; d = 0 is +/-Infinity.
Num(n, d) ==
    LET s == IF d < 0 THEN -1 ELSE 1
        g == GCD(Abs(n), Abs(d))
    IN  IF g = 0
        THEN [kind |-> "number", num |-> 0, den |-> 0]
        ELSE [kind |-> "number", num |-> (s * n) \div g, den |-> (s * d) \div g]

IntNum(n) == Num(n, 1)
UndefinedNum == [kind |-> "undefined", num |-> 0, den |-> 1]

\* JavaScript truthiness of a number-or-undefined: undefined, 0 and NaN are falsy.
FalsyNum(x) == x.kind = "undefined" \/ x.num = 0

NumDiv(a, b) == Num(a.num * b.den, a.den * b.num)
NumSub(a, b) == Num(a.num * b.den - b.num * a.den, a.den * b.den)
NumMul(a, b) == Num(a.num * b.num, a.den * b.den)
NumLt(a, b) == a.num * b.den < b.num * a.den
NumEq(a, b) == a.num * b.den = b.num * a.den
\* a % b for a >= 0 and finite b > 0 (the remainder has the sign of a).
NumMod(a, b) ==
    Num((a.num * b.den) % (b.num * a.den), a.den * b.den)
IsInteger(x) == x.kind = "number" /\ x.den = 1

\* The payoutsPerDay values a config.json can carry.
PayoutsValues ==
    {UndefinedNum} \cup
    {Num(n, d) : n \in (0 - MaxNegPayouts)..MaxPayoutsNum, d \in {1, 2}}

\* --------------------------------------------------------------- variables
VARIABLES
    processEnv,          \* process.env: the three environment variables
    config,              \* config.json: network and payoutsPerDay
    pc,                  \* position of the top-level module code
    error,               \* the uncaught error that ended the process, or "none"
    treasuryPrivateKey,  \* const treasuryPrivateKey
    katpoolPshGw,        \* const katpoolPshGw
    databaseUrl,         \* const databaseUrl
    payoutsPerDay,       \* const payoutsPerDay
    paymentInterval,     \* const paymentInterval
    rpcConnectCalls,     \* TRUE once rpc.connect() has been called
    serverInfo,          \* the snapshot returned by rpc.getServerInfo()
    rpcConnected,        \* let rpcConnected
    transactionManager,  \* let transactionManager
    scheduled,           \* TRUE once cron.schedule registered the task
    heartbeat,           \* TRUE once setInterval registered the progress timer
    now,                 \* wall clock: [hours, minutes]
    cronFired,           \* the cron task already ran in the current minute
    hbElapsed,           \* minutes since the progress timer was armed / last ran
    inFlight,            \* transferBalances() calls started and not yet settled
    lastResult,          \* "none", "pending", "ok" or "error": the latest transfer event
    remainingTime,       \* const remainingTime of the latest progress run
    hbAt,                \* the wall clock read by the latest progress run
    log                  \* the kinds of lines written by monitoring.log / .error

vars == <<processEnv, config, pc, error, treasuryPrivateKey, katpoolPshGw,
          databaseUrl, payoutsPerDay, paymentInterval, rpcConnectCalls,
          serverInfo, rpcConnected, transactionManager, scheduled, heartbeat,
          now, cronFired, hbElapsed, inFlight, lastResult, remainingTime,
          hbAt, log>>

NoTime == [hours |-> -1, minutes |-> -1]
NoInfo == [isSynced |-> FALSE, hasUtxoIndex |-> FALSE, received |-> FALSE]

Init ==
    /\ processEnv \in [EnvNames -> EnvValues]
    /\ config \in [network : EnvValues, payoutsPerDay : PayoutsValues]
    /\ pc = "checkTreasuryKey"
    /\ error = "none"
    /\ treasuryPrivateKey = Undefined
    /\ katpoolPshGw = Undefined
    /\ databaseUrl = Undefined
    /\ payoutsPerDay = UndefinedNum
    /\ paymentInterval = UndefinedNum
    /\ rpcConnectCalls = FALSE
    /\ serverInfo = NoInfo
    /\ rpcConnected = FALSE
    /\ transactionManager = Null
    /\ scheduled = FALSE
    /\ heartbeat = FALSE
    /\ now = [hours |-> 0, minutes |-> 0]
    /\ cronFired = FALSE
    /\ hbElapsed = 0
    /\ inFlight = 0
    /\ lastResult = "none"
    /\ remainingTime = UndefinedNum
    /\ hbAt = NoTime
    /\ log = {"Starting katpool Payment App"}

\* An uncaught error at the top level of the module ends the process.
Throw(msg) ==
    /\ pc' = "crashed"
    /\ error' = msg


\* ----------------------------------------------------------------- frames
envVars == <<processEnv, config>>
constVars == <<treasuryPrivateKey, katpoolPshGw, databaseUrl, payoutsPerDay,
               paymentInterval>>
rpcVars == <<rpcConnectCalls, serverInfo, rpcConnected, transactionManager>>
timerVars == <<scheduled, heartbeat, now, cronFired, hbElapsed>>
runVars == <<inFlight, lastResult, remainingTime, hbAt, log>>

\* ------------------------------------------------ environment checks 27-49
\* const treasuryPrivateKey = process.env.TREASURY_PRIVATE_KEY; if (!...) throw
CheckTreasuryKey ==
    /\ pc = "checkTreasuryKey"
    /\ treasuryPrivateKey' = processEnv["TREASURY_PRIVATE_KEY"]
    /\ IF Falsy(processEnv["TREASURY_PRIVATE_KEY"])
       THEN Throw("Environment variable TREASURY_PRIVATE_KEY is not set.")
       ELSE pc' = "checkNetwork" /\ error' = error
    /\ UNCHANGED <<envVars, katpoolPshGw, databaseUrl, payoutsPerDay,
                   paymentInterval, rpcVars, timerVars, runVars>>

\* if (!config.network) throw
CheckNetwork ==
    /\ pc = "checkNetwork"
    /\ IF Falsy(config.network)
       THEN Throw("No network has been set in config.json")
       ELSE pc' = "checkPushGateway" /\ error' = error
    /\ UNCHANGED <<envVars, constVars, rpcVars, timerVars, runVars>>

\* const katpoolPshGw = process.env.PUSHGATEWAY; if (!...) throw
CheckPushGateway ==
    /\ pc = "checkPushGateway"
    /\ katpoolPshGw' = processEnv["PUSHGATEWAY"]
    /\ IF Falsy(processEnv["PUSHGATEWAY"])
       THEN Throw("Environment variable PUSHGATEWAY is not set.")
       ELSE pc' = "checkDatabaseUrl" /\ error' = error
    /\ UNCHANGED <<envVars, treasuryPrivateKey, databaseUrl, payoutsPerDay,
                   paymentInterval, rpcVars, timerVars, runVars>>

\* CheckDatabaseUrl without the throw of line 47.
CheckDatabaseUrlNoThrow ==
    /\ pc = "checkDatabaseUrl"
    /\ databaseUrl' = processEnv["DATABASE_URL"]
    /\ pc' = "paymentInterval"
    /\ UNCHANGED <<envVars, error, treasuryPrivateKey, katpoolPshGw,
                   payoutsPerDay, paymentInterval, rpcVars, timerVars, runVars>>

\* const databaseUrl = process.env.DATABASE_URL; if (!...) throw
CheckDatabaseUrl ==
    /\ pc = "checkDatabaseUrl"
    /\ databaseUrl' = processEnv["DATABASE_URL"]
    /\ IF Falsy(processEnv["DATABASE_URL"])
       THEN Throw("Environment variable DATABASE_URL is not set.")
       ELSE pc' = "paymentInterval" /\ error' = error
    /\ UNCHANGED <<envVars, treasuryPrivateKey, katpoolPshGw, payoutsPerDay,
                   paymentInterval, rpcVars, timerVars, runVars>>

\* ------------------------------------------- configuration parameters 51-57
\* config.payoutsPerDay || 2
PayoutsOrDefault(configured) ==
    IF FalsyNum(configured) THEN IntNum(DefaultPayoutsPerDay) ELSE configured

\* 24 / payoutsPerDay
IntervalOf(payouts) == NumDiv(IntNum(HoursPerDay), payouts)

\* paymentInterval < 1 || paymentInterval > 24
IntervalOutOfRange(interval) ==
    \/ NumLt(interval, IntNum(MinInterval))
    \/ NumLt(IntNum(MaxInterval), interval)

ComputePaymentInterval ==
    /\ pc = "paymentInterval"
    /\ payoutsPerDay' = PayoutsOrDefault(config.payoutsPerDay)
    /\ paymentInterval' = IntervalOf(payoutsPerDay')
    /\ IF IntervalOutOfRange(paymentInterval')
       THEN Throw("paymentInterval must be between 1 and 24 hours.")
       ELSE pc' = "startup" /\ error' = error
    /\ UNCHANGED <<envVars, treasuryPrivateKey, katpoolPshGw, databaseUrl,
                   rpcVars, timerVars, runVars>>

\* ------------------------------------------------- startRpcConnection 80-93
\* if (!rpcConnected) { await startRpcConnection(); ... }: the guard of line 95
\* and the call rpc.connect() of line 83, which then awaits.
\* StartRpcConnection without the await of line 96: the startup goes on while
\* the connection is still being made.
StartRpcConnectionNotAwaited ==
    /\ pc = "startup"
    /\ rpcConnectCalls' = TRUE
    /\ pc' = "setupTransactionManager"
    /\ UNCHANGED <<envVars, constVars, error, serverInfo, rpcConnected,
                   transactionManager, timerVars, runVars>>

StartRpcConnection ==
    /\ pc = "startup"
    /\ IF ~rpcConnected
       THEN /\ rpcConnectCalls' = TRUE
            /\ pc' = "awaitConnect"
       ELSE /\ rpcConnectCalls' = rpcConnectCalls
            /\ pc' = "cronSchedule"
    /\ UNCHANGED <<envVars, constVars, error, serverInfo, rpcConnected,
                   transactionManager, timerVars, runVars>>

\* rpc.connect() resolves; rpc.getServerInfo() is called and awaited (line 87).
ConnectResolves ==
    /\ pc = "awaitConnect"
    /\ pc' = "awaitServerInfo"
    /\ UNCHANGED <<envVars, constVars, error, rpcVars, timerVars, runVars>>

\* rpc.connect() rejects: catch (rpcError) { throw Error('RPC connection error') }
ConnectRejects ==
    /\ pc = "awaitConnect"
    /\ Throw("RPC connection error")
    /\ UNCHANGED <<envVars, constVars, rpcVars, timerVars, runVars>>

\* NodeNotReady with && in place of ||.
NodeNotReadyBothMissing(info) == ~info.isSynced /\ ~info.hasUtxoIndex

\* !serverInfo.isSynced || !serverInfo.hasUtxoIndex
NodeNotReady(info) == ~info.isSynced \/ ~info.hasUtxoIndex

\* ServerInfoResolves with rpcConnected = true moved above the readiness check.
ServerInfoResolvesGateFirst ==
    /\ pc = "awaitServerInfo"
    /\ \E synced \in BOOLEAN, utxoIndex \in BOOLEAN :
          serverInfo' = [isSynced |-> synced, hasUtxoIndex |-> utxoIndex,
                         received |-> TRUE]
    /\ rpcConnected' = TRUE
    /\ IF NodeNotReady(serverInfo')
       THEN Throw("Provided node is either not synchronized or lacks the UTXO index.")
       ELSE pc' = "setupTransactionManager" /\ error' = error
    /\ UNCHANGED <<envVars, constVars, rpcConnectCalls, transactionManager,
                   timerVars, runVars>>

\* ServerInfoResolves without the assignment rpcConnected = true of line 91.
ServerInfoResolvesNoGate ==
    /\ pc = "awaitServerInfo"
    /\ \E synced \in BOOLEAN, utxoIndex \in BOOLEAN :
          serverInfo' = [isSynced |-> synced, hasUtxoIndex |-> utxoIndex,
                         received |-> TRUE]
    /\ IF NodeNotReady(serverInfo')
       THEN Throw("Provided node is either not synchronized or lacks the UTXO index.")
       ELSE pc' = "setupTransactionManager" /\ error' = error
    /\ UNCHANGED <<envVars, constVars, rpcConnectCalls, rpcConnected,
                   transactionManager, timerVars, runVars>>

\* rpc.getServerInfo() resolves with a snapshot; lines 88-91.
ServerInfoResolves ==
    /\ pc = "awaitServerInfo"
    /\ \E synced \in BOOLEAN, utxoIndex \in BOOLEAN :
          serverInfo' = [isSynced |-> synced, hasUtxoIndex |-> utxoIndex,
                         received |-> TRUE]
    /\ IF NodeNotReady(serverInfo')
       THEN /\ Throw("Provided node is either not synchronized or lacks the UTXO index.")
            /\ rpcConnected' = rpcConnected
       ELSE /\ rpcConnected' = TRUE
            /\ pc' = "setupTransactionManager"
            /\ error' = error
    /\ UNCHANGED <<envVars, constVars, rpcConnectCalls, transactionManager,
                   timerVars, runVars>>

\* rpc.getServerInfo() rejects: nothing catches it, the error leaves line 96.
ServerInfoRejects ==
    /\ pc = "awaitServerInfo"
    /\ Throw("getServerInfo failed")
    /\ UNCHANGED <<envVars, constVars, rpcVars, timerVars, runVars>>

\* -------------------------------------------- setupTransactionManager 75-78
\* transactionManager = new trxManager(config.network, treasuryPrivateKey,
\*                                     databaseUrl, rpc)
SetupTransactionManager ==
    /\ pc = "setupTransactionManager"
    /\ transactionManager' =
          [constructed |-> TRUE, network |-> config.network,
           key |-> treasuryPrivateKey, database |-> databaseUrl]
    /\ pc' = "cronSchedule"
    /\ UNCHANGED <<envVars, constVars, error, rpcConnectCalls, serverInfo,
                   rpcConnected, timerVars, runVars>>

\* ------------------------------------------------------ cron.schedule 103
\* node-cron accepts the hour field "*/n" only for a whole number n: the
\* template `0 */${paymentInterval} * * *` prints 4.8 as "*/4.8", which the
\* library's pattern validation rejects with an exception.
CronPatternValid(interval) == IsInteger(interval) /\ interval.num >= 1

\* CronMatches for the pattern "0 * * * *": the step of the hour field is lost.
CronMatchesEveryHour(time, interval) == time.minutes = 0

\* "0 */n * * *" matches minute 0 of the hours h in 0..23 with h % n = 0.
CronMatches(time, interval) ==
    /\ time.minutes = 0
    /\ NumEq(NumMod(IntNum(time.hours), interval), IntNum(0))

\* cron.schedule(...): registers the task, or throws on an invalid pattern.
\* Second 0 of the minute of registration is already past.
CronSchedule ==
    /\ pc = "cronSchedule"
    /\ IF CronPatternValid(paymentInterval)
       THEN /\ scheduled' = TRUE
            /\ cronFired' = TRUE
            /\ pc' = "setInterval"
            /\ error' = error
       ELSE /\ Throw("invalid cron pattern")
            /\ UNCHANGED <<scheduled, cronFired>>
    /\ UNCHANGED <<envVars, constVars, rpcVars, heartbeat, now, hbElapsed,
                   runVars>>

\* setInterval(..., 10 * 60 * 1000) at line 118 and the log line 130, after
\* which the module code is done and the timers run.
SetHeartbeatInterval ==
    /\ pc = "setInterval"
    /\ heartbeat' = TRUE
    /\ hbElapsed' = 0
    /\ log' = log \cup {"Scheduled balance transfer"}
    /\ pc' = "running"
    /\ UNCHANGED <<envVars, constVars, error, rpcVars, scheduled, now,
                   cronFired, inFlight, lastResult, remainingTime, hbAt>>

\* ------------------------------------------------- the cron callback 103-115
\* CronCallback with the call of line 107 left out.
CronCallbackNoCall ==
    IF rpcConnected
    THEN /\ log' = log \cup {"Running scheduled balance transfer"}
         /\ UNCHANGED <<inFlight, lastResult>>
    ELSE /\ log' = log \cup {"RPC connection is not established before balance transfer"}
         /\ UNCHANGED <<inFlight, lastResult>>

\* CronCallback with the call of line 107 made twice.
CronCallbackTwoCalls ==
    IF rpcConnected
    THEN /\ log' = log \cup {"Running scheduled balance transfer"}
         /\ lastResult' = "pending"
         /\ inFlight' = inFlight + 2
    ELSE /\ log' = log \cup {"RPC connection is not established before balance transfer"}
         /\ UNCHANGED <<inFlight, lastResult>>

\* The synchronous part of the callback, up to the await of line 107.  A null
\* transactionManager makes line 107 throw a TypeError inside the try block.
CronCallback ==
    IF rpcConnected
    THEN IF transactionManager = Null
         THEN /\ log' = log \cup {"Running scheduled balance transfer",
                                  "Transaction manager error"}
              /\ lastResult' = "error"
              /\ inFlight' = inFlight
         ELSE /\ log' = log \cup {"Running scheduled balance transfer"}
              /\ lastResult' = "pending"
              /\ inFlight' = inFlight + 1
    ELSE /\ log' = log \cup {"RPC connection is not established before balance transfer"}
         /\ UNCHANGED <<inFlight, lastResult>>

CronDue ==
    /\ pc = "running"
    /\ scheduled
    /\ ~cronFired
    /\ CronMatches(now, paymentInterval)

\* CronFire that waits for the pending call: no firing while a call is in flight.
CronFireWaitsForPending ==
    /\ CronDue
    /\ inFlight = 0
    /\ cronFired' = TRUE
    /\ CronCallback
    /\ UNCHANGED <<envVars, constVars, pc, error, rpcVars, scheduled,
                   heartbeat, now, hbElapsed, remainingTime, hbAt>>

\* CronFire with the manager dropped once its call has been started.
CronFireDropsManager ==
    /\ CronDue
    /\ inFlight < MaxInFlight
    /\ cronFired' = TRUE
    /\ CronCallback
    /\ transactionManager' = Null
    /\ UNCHANGED <<envVars, constVars, pc, error, rpcConnectCalls, serverInfo,
                   rpcConnected, scheduled, heartbeat, now, hbElapsed,
                   remainingTime, hbAt>>

CronFire ==
    /\ CronDue
    /\ inFlight < MaxInFlight
    /\ cronFired' = TRUE
    /\ CronCallback
    /\ UNCHANGED <<envVars, constVars, pc, error, rpcVars, scheduled,
                   heartbeat, now, hbElapsed, remainingTime, hbAt>>

\* await transactionManager.transferBalances() resolves: the callback ends.
TransferResolves ==
    /\ pc = "running"
    /\ inFlight > 0
    /\ inFlight' = inFlight - 1
    /\ lastResult' = "ok"
    /\ UNCHANGED <<envVars, constVars, pc, error, rpcVars, timerVars,
                   remainingTime, hbAt, log>>

\* TransferRejects without the try/catch of lines 106-111: the rejection is
\* unhandled and ends the process.
TransferRejectsUncaught ==
    /\ pc = "running"
    /\ inFlight > 0
    /\ inFlight' = inFlight - 1
    /\ lastResult' = "error"
    /\ Throw("unhandled rejection")
    /\ UNCHANGED <<envVars, constVars, rpcVars, timerVars, remainingTime,
                   hbAt, log>>

\* transferBalances() rejects: catch (transactionError) { monitoring.error(...) }
TransferRejects ==
    /\ pc = "running"
    /\ inFlight > 0
    /\ inFlight' = inFlight - 1
    /\ lastResult' = "error"
    /\ log' = log \cup {"Transaction manager error"}
    /\ UNCHANGED <<envVars, constVars, pc, error, rpcVars, timerVars,
                   remainingTime, hbAt>>

\* --------------------------------------------- progress indicator 118-128
\* const nextTransferHours = paymentInterval - (hours % paymentInterval)
NextTransferHours(hours, interval) ==
    NumSub(interval, NumMod(IntNum(hours), interval))

\* const remainingMinutes = nextTransferHours * 60 - minutes
RemainingMinutes(hours, minutes, interval) ==
    NumSub(NumMul(NextTransferHours(hours, interval), IntNum(MinutesPerHour)),
           IntNum(minutes))

\* RemainingTime without the zero case of line 125.
RemainingTimeNoZeroCase(hours, minutes, interval) ==
    RemainingMinutes(hours, minutes, interval)

\* remainingMinutes === nextTransferHours * 60 ? 0 : remainingMinutes
RemainingTime(hours, minutes, interval) ==
    IF NumEq(RemainingMinutes(hours, minutes, interval),
             NumMul(NextTransferHours(hours, interval), IntNum(MinutesPerHour)))
    THEN IntNum(0)
    ELSE RemainingMinutes(hours, minutes, interval)

HeartbeatDue ==
    /\ pc = "running"
    /\ heartbeat
    /\ hbElapsed = HeartbeatMinutes

\* Heartbeat that also starts a balance transfer.
HeartbeatStartsTransfer ==
    /\ HeartbeatDue
    /\ hbAt' = now
    /\ remainingTime' = RemainingTime(now.hours, now.minutes, paymentInterval)
    /\ hbElapsed' = 0
    /\ inFlight' = IF inFlight < MaxInFlight THEN inFlight + 1 ELSE inFlight
    /\ lastResult' = "pending"
    /\ UNCHANGED <<envVars, constVars, pc, error, rpcVars, scheduled,
                   heartbeat, now, cronFired, log>>

Heartbeat ==
    /\ HeartbeatDue
    /\ hbAt' = now
    /\ remainingTime' = RemainingTime(now.hours, now.minutes, paymentInterval)
    /\ hbElapsed' = 0
    /\ UNCHANGED <<envVars, constVars, pc, error, rpcVars, scheduled,
                   heartbeat, now, cronFired, inFlight, lastResult, log>>

\* ------------------------------------------------------------------- time
NextMinute(time) ==
    IF time.minutes + 1 < MinutesPerHour
    THEN [time EXCEPT !.minutes = time.minutes + 1]
    ELSE [hours |-> (time.hours + 1) % HoursPerDay, minutes |-> 0]

\* One minute passes: while the startup awaits the node, or while the timers
\* run.  A timer that is due runs before the minute is over.
Tick ==
    /\ pc \in {"awaitConnect", "awaitServerInfo", "running"}
    /\ ~CronDue
    /\ ~HeartbeatDue
    /\ now' = NextMinute(now)
    /\ cronFired' = FALSE
    /\ hbElapsed' = IF heartbeat THEN hbElapsed + 1 ELSE hbElapsed
    /\ UNCHANGED <<envVars, constVars, pc, error, rpcVars, scheduled,
                   heartbeat, runVars>>

\* ---------------------------------------------------------- specification
Next ==
    \/ CheckTreasuryKey
    \/ CheckNetwork
    \/ CheckPushGateway
    \/ CheckDatabaseUrl
    \/ ComputePaymentInterval
    \/ StartRpcConnection
    \/ ConnectResolves
    \/ ConnectRejects
    \/ ServerInfoResolves
    \/ ServerInfoRejects
    \/ SetupTransactionManager
    \/ CronSchedule
    \/ SetHeartbeatInterval
    \/ CronFire
    \/ TransferResolves
    \/ TransferRejects
    \/ Heartbeat
    \/ Tick

Spec == Init /\ [][Next]_vars

TypeOK ==
    /\ pc \in {"checkTreasuryKey", "checkNetwork", "checkPushGateway",
               "checkDatabaseUrl", "paymentInterval", "startup",
               "awaitConnect", "awaitServerInfo", "setupTransactionManager",
               "cronSchedule", "setInterval", "running", "crashed"}
    /\ rpcConnected \in BOOLEAN
    /\ inFlight \in 0..MaxInFlight
    /\ hbElapsed \in 0..HeartbeatMinutes
    /\ now.hours \in 0..(HoursPerDay - 1)
    /\ now.minutes \in 0..(MinutesPerHour - 1)

\* ================================================================= claims

ErrTreasuryKey == "Environment variable TREASURY_PRIVATE_KEY is not set."
ErrNetwork == "No network has been set in config.json"
ErrPushGateway == "Environment variable PUSHGATEWAY is not set."
ErrDatabaseUrl == "Environment variable DATABASE_URL is not set."
ErrInterval == "paymentInterval must be between 1 and 24 hours."
ErrConnect == "RPC connection error"
ErrServerInfo == "getServerInfo failed"
ErrNotReady == "Provided node is either not synchronized or lacks the UTXO index."

\* The errors of the required values that are missing in this run.
MissingErrors ==
    (IF Falsy(processEnv["TREASURY_PRIVATE_KEY"]) THEN {ErrTreasuryKey} ELSE {})
    \cup (IF Falsy(config.network) THEN {ErrNetwork} ELSE {})
    \cup (IF Falsy(processEnv["PUSHGATEWAY"]) THEN {ErrPushGateway} ELSE {})
    \cup (IF Falsy(processEnv["DATABASE_URL"]) THEN {ErrDatabaseUrl} ELSE {})

\* C1: if any of the four required values (TREASURY_PRIVATE_KEY,
\* config.network, PUSHGATEWAY, DATABASE_URL) is missing or empty, rpc.connect()
\* is never called, the startup does not get past the four checks, and when it
\* has failed the error is the one of a missing value.
C1_NoConnectWhenConfigMissing ==
    MissingErrors # {} =>
        /\ ~rpcConnectCalls
        /\ pc \in {"checkTreasuryKey", "checkNetwork", "checkPushGateway",
                   "checkDatabaseUrl", "crashed"}
        /\ pc = "crashed" => error \in MissingErrors

\* C1 witness: only DATABASE_URL is missing and the startup has failed on it.
C1_Witness ==
    /\ MissingErrors = {ErrDatabaseUrl}
    /\ pc = "crashed"
    /\ error = ErrDatabaseUrl
    /\ ~rpcConnectCalls

\* C2: the transaction manager is constructed only if the snapshot of
\* getServerInfo() has isSynced and hasUtxoIndex both true; a snapshot with
\* either flag false ends the startup with the node-not-ready error and
\* setupTransactionManager is not called.
C2_ManagerOnlyWhenNodeReady ==
    /\ transactionManager.constructed =>
          serverInfo.received /\ serverInfo.isSynced /\ serverInfo.hasUtxoIndex
    /\ (serverInfo.received /\ ~(serverInfo.isSynced /\ serverInfo.hasUtxoIndex)) =>
          /\ pc = "crashed"
          /\ error = ErrNotReady
          /\ ~transactionManager.constructed

\* C2 witness: a synced node without UTXO index stopped the startup.
C2_Witness ==
    /\ serverInfo.received
    /\ serverInfo.isSynced
    /\ ~serverInfo.hasUtxoIndex
    /\ pc = "crashed"
    /\ error = ErrNotReady
    /\ ~transactionManager.constructed

\* A step in which the cron task fires.
CronFiring == pc = "running" /\ ~cronFired /\ cronFired'

\* C3: a scheduler firing with rpcConnected true starts exactly one
\* transferBalances() call, and a call is only ever started by such a firing.
C3_OneTransferPerFiring ==
    [][ /\ (CronFiring /\ rpcConnected) => inFlight' = inFlight + 1
        /\ inFlight' > inFlight =>
              CronFiring /\ rpcConnected /\ inFlight' = inFlight + 1 ]_vars

\* C3 witness: the cron task has just fired with the gate open and its call
\* is the only one pending.
C3_Witness ==
    /\ pc = "running"
    /\ cronFired
    /\ rpcConnected
    /\ lastResult = "pending"
    /\ inFlight = 1

\* A step in which a pending transferBalances() call fails.
TransferFailing == inFlight' = inFlight - 1 /\ lastResult' = "error"

\* C4: when transferBalances() fails, the error is logged, the process keeps
\* running, rpcConnected and the registrations are unchanged; and once an
\* error has been logged no firing boundary passes without the task firing,
\* and every such firing calls transferBalances() again.
C4_TransferErrorContained ==
    [][ /\ TransferFailing =>
              /\ "Transaction manager error" \in log'
              /\ pc' = "running"
              /\ error' = "none"
              /\ rpcConnected' = rpcConnected
              /\ scheduled' = scheduled
              /\ heartbeat' = heartbeat
        /\ "Transaction manager error" \in log =>
              /\ pc' = "running"
              /\ scheduled'
              /\ (now' # now /\ CronMatches(now, paymentInterval)) => cronFired
              /\ CronFiring => inFlight' = inFlight + 1 ]_vars

\* C4 witness: an error was logged, no call was pending, and the next firing
\* has started a new call.
C4_Witness ==
    /\ pc = "running"
    /\ "Transaction manager error" \in log
    /\ cronFired
    /\ lastResult = "pending"
    /\ inFlight = 1

\* C6: a startup that fails in the connection phase (rpc.connect() throws,
\* getServerInfo() throws, or the node is not ready) leaves the process
\* terminated with rpcConnected false, no task and no timer registered, no
\* transaction manager, and no scheduled run logged or started.
C6_FailedStartupNeverSchedules ==
    error \in {ErrConnect, ErrServerInfo, ErrNotReady} =>
        /\ pc = "crashed"
        /\ ~ENABLED Next
        /\ ~rpcConnected
        /\ ~scheduled
        /\ ~heartbeat
        /\ ~transactionManager.constructed
        /\ "Running scheduled balance transfer" \notin log
        /\ inFlight = 0
        /\ lastResult = "none"

\* C6 witness: the node answered getServerInfo() with isSynced false and the
\* startup has ended.
C6_Witness ==
    /\ error = ErrNotReady
    /\ pc = "crashed"
    /\ serverInfo.received
    /\ ~serverInfo.isSynced
    /\ ~rpcConnected

\* The startup has computed paymentInterval and got past the range check.
PassedIntervalValidation ==
    /\ paymentInterval.kind = "number"
    /\ error # ErrInterval

\* C7 (as claimed): whenever the startup passes the interval validation,
\* paymentInterval = 24 / payoutsPerDay is an integer in [1, 24].
C7_IntervalIsIntegerInRange ==
    PassedIntervalValidation =>
        /\ NumEq(paymentInterval, IntervalOf(payoutsPerDay))
        /\ IsInteger(paymentInterval)
        /\ paymentInterval.num \in MinInterval..MaxInterval

\* The configured payoutsPerDay is a number whose 24 / payoutsPerDay lies
\* outside [1, 24]; 24 / 0 is Infinity.
ConfiguredIntervalOutOfRange ==
    /\ config.payoutsPerDay.kind = "number"
    /\ IntervalOutOfRange(IntervalOf(config.payoutsPerDay))

\* C8 (as claimed): for every configured payoutsPerDay whose interval is
\* outside [1, 24], 0 included, the startup fails with the range error (or an
\* earlier configuration error) before rpc.connect() and the task is never
\* registered.
C8_OutOfRangeFailsStartup ==
    ConfiguredIntervalOutOfRange =>
        /\ ~rpcConnectCalls
        /\ ~scheduled
        /\ pc \in {"checkTreasuryKey", "checkNetwork", "checkPushGateway",
                   "checkDatabaseUrl", "paymentInterval", "crashed"}
        /\ pc = "crashed" => error \in MissingErrors \cup {ErrInterval}

\* The progress callback has run at least once.
HeartbeatRan == hbAt # NoTime

\* C9: a progress run at a firing boundary (minute 0 of an hour that is a
\* multiple of paymentInterval) computes 0 remaining minutes, not the full
\* interval of 60 * paymentInterval minutes.
C9_ZeroAtFiringBoundary ==
    (HeartbeatRan /\ CronMatches(hbAt, paymentInterval)) =>
        /\ NumEq(remainingTime, IntNum(0))
        /\ ~NumEq(remainingTime, NumMul(paymentInterval, IntNum(MinutesPerHour)))

\* C9 witness: with paymentInterval = 12 the progress callback ran at 12:00.
C9_Witness ==
    /\ HeartbeatRan
    /\ paymentInterval = IntNum(12)
    /\ hbAt = [hours |-> 12, minutes |-> 0]
    /\ remainingTime = IntNum(0)

\* The hours from `hours` to the next hour that the cron pattern matches,
\* counted from 1 (the current hour is not the next one).
HoursToNextMatch(hours, interval) ==
    CHOOSE j \in 1..HoursPerDay :
        /\ CronMatches([hours |-> (hours + j) % HoursPerDay, minutes |-> 0], interval)
        /\ \A i \in 1..(j - 1) :
              ~CronMatches([hours |-> (hours + i) % HoursPerDay, minutes |-> 0],
                           interval)

\* The minutes from `time` to the next firing of the cron task; 0 at a firing.
MinutesUntilNextFiring(time, interval) ==
    IF CronMatches(time, interval)
    THEN 0
    ELSE HoursToNextMatch(time.hours, interval) * MinutesPerHour - time.minutes

\* C10 (as claimed): the remaining time of every progress run equals the
\* minutes from the time of the run to the next firing of the cron task, and
\* is 0 only at a firing boundary.
C10_RemainingTimeIsTimeToNextFiring ==
    HeartbeatRan =>
        /\ remainingTime = IntNum(MinutesUntilNextFiring(hbAt, paymentInterval))
        /\ NumEq(remainingTime, IntNum(0)) => CronMatches(hbAt, paymentInterval)

\* The wall clock is at minute 0 of an hour that is a multiple of the
\* (whole-number) payment interval.
AtIntervalHour ==
    /\ now.minutes = 0
    /\ IsInteger(paymentInterval)
    /\ now.hours % paymentInterval.num = 0

\* C11: the cron task fires only at minute 0 of an hour h with
\* h mod paymentInterval = 0, no such minute passes without the task having
\* fired (whatever calls are pending), and with payoutsPerDay = 2 the firings
\* are at hour 0 and hour 12 only.
C11_FiresAtIntervalHoursOnly ==
    [][ /\ CronFiring => (AtIntervalHour /\ now' = now)
        /\ (pc = "running" /\ now' # now /\ AtIntervalHour) => cronFired
        /\ (CronFiring /\ config.payoutsPerDay = IntNum(2)) =>
              (now.hours \in {0, 12} /\ now.minutes = 0) ]_vars

\* C11 witness: with payoutsPerDay = 2 the task has fired at 12:00.
C11_Witness ==
    /\ pc = "running"
    /\ config.payoutsPerDay = IntNum(2)
    /\ paymentInterval = IntNum(12)
    /\ now = [hours |-> 12, minutes |-> 0]
    /\ cronFired
    /\ lastResult = "pending"

\* C12: whenever the transaction manager has been constructed rpcConnected is
\* true, and every step that starts a transferBalances() call is taken from a
\* state where rpcConnected is true and the manager exists.
C12_ManagerImpliesConnected ==
    [][ /\ transactionManager.constructed => rpcConnected
        /\ transactionManager'.constructed => rpcConnected'
        /\ inFlight' > inFlight =>
              (rpcConnected /\ transactionManager.constructed) ]_vars

\* C12 witness: the manager exists, the gate is open and a call was started
\* and has completed.
C12_Witness ==
    /\ transactionManager.constructed
    /\ rpcConnected
    /\ lastResult = "ok"
    /\ inFlight = 0

\* C13 (as claimed): at most one transferBalances() call is in flight at any
\* time.
C13_AtMostOneInFlight == inFlight <= 1

\* C13 (amended): a firing that finds no call pending leaves exactly one call
\* in flight, and a second call comes to be in flight only through a firing
\* that found the earlier call still pending: the callback does not test for
\* a pending call.
C13_OverlapOnlyAcrossFirings ==
    [][ /\ (CronFiring /\ inFlight = 0) => inFlight' <= 1
        /\ (inFlight <= 1 /\ inFlight' > 1) =>
              (CronFiring /\ inFlight = 1 /\ inFlight' = 2) ]_vars

\* C13 witness: the task has fired while the call of an earlier firing was
\* pending, and two calls are in flight.
C13_Witness ==
    /\ pc = "running"
    /\ cronFired
    /\ lastResult = "pending"
    /\ inFlight = 2

\* C14: rpcConnected starts false, becomes true only in the step in which
\* getServerInfo() returned isSynced and hasUtxoIndex after rpc.connect() was
\* called and had resolved, and once true it stays true in every step.
C14_GateSetOnceNeverReset ==
    [][ /\ pc = "checkTreasuryKey" => ~rpcConnected
        /\ rpcConnected => rpcConnected'
        /\ (~rpcConnected /\ rpcConnected') =>
              /\ pc = "awaitServerInfo"
              /\ pc' = "setupTransactionManager"
              /\ rpcConnectCalls
              /\ serverInfo'.received
              /\ serverInfo'.isSynced
              /\ serverInfo'.hasUtxoIndex ]_vars

\* C14 witness: the gate has just been opened by the readiness check.
C14_Witness ==
    /\ rpcConnected
    /\ pc = "setupTransactionManager"
    /\ serverInfo.isSynced
    /\ serverInfo.hasUtxoIndex

\* C15: transactionManager changes in one step only, the call of
\* setupTransactionManager during startup, from null to the instance; no
\* firing, transfer result or progress run constructs or replaces it.
C15_ManagerConstructedOnce ==
    [][ transactionManager' # transactionManager =>
            /\ pc = "setupTransactionManager"
            /\ transactionManager = Null
            /\ transactionManager'.constructed ]_vars

\* C15 witness: the task has fired and the progress callback has run, with
\* the manager of the startup in place.
C15_Witness ==
    /\ pc = "running"
    /\ transactionManager.constructed
    /\ HeartbeatRan
    /\ lastResult = "pending"
    /\ "Transaction manager error" \in log

\* C16: a pending transferBalances() call, which need never complete, blocks
\* neither timer: while a call is in flight no minute ends with the progress
\* run overdue or with the firing of an interval hour missed, a progress run
\* leaves the call pending, a due firing of the cron task can run (below the
\* model's bound on pending calls), and otherwise the clock can advance.
C16_PendingCallBlocksNoTimer ==
    [][ (pc = "running" /\ inFlight > 0) =>
            /\ now' # now =>
                  /\ hbElapsed < HeartbeatMinutes
                  /\ AtIntervalHour => cronFired
            /\ (HeartbeatDue /\ hbElapsed' = 0) =>
                  (hbAt' = now /\ inFlight' = inFlight)
            /\ (CronDue /\ inFlight < MaxInFlight) => ENABLED CronFire
            /\ (~HeartbeatDue /\ ~CronDue) => ENABLED Tick ]_vars

\* C16 witness: while the call of an earlier firing was pending the task has
\* fired again and the progress callback has run in the same minute.
C16_Witness ==
    /\ pc = "running"
    /\ inFlight = 2
    /\ cronFired
    /\ HeartbeatRan
    /\ hbAt = now
    /\ hbElapsed = 0

\* A step in which the progress callback runs.
HeartbeatRunning == HeartbeatDue /\ hbElapsed' = 0

\* C17: a progress run leaves rpcConnected, transactionManager,
\* paymentInterval, the registrations, the pending calls and the log lines of
\* the scheduler unchanged, and paymentInterval changes only in the startup
\* step that computes it.
C17_HeartbeatChangesNothing ==
    [][ /\ HeartbeatRunning =>
              UNCHANGED <<rpcConnected, transactionManager, paymentInterval,
                          payoutsPerDay, scheduled, heartbeat, cronFired,
                          inFlight, lastResult, log, pc, error>>
        /\ paymentInterval' # paymentInterval =>
              (pc = "paymentInterval" /\ paymentInterval = UndefinedNum) ]_vars

\* C17 witness: the progress callback has just run while a call was pending.
C17_Witness ==
    /\ pc = "running"
    /\ HeartbeatRan
    /\ hbAt = now
    /\ hbElapsed = 0
    /\ inFlight = 1
    /\ rpcConnected

NotEstablishedLine == "RPC connection is not established before balance transfer"

\* C18: the task is registered only with rpcConnected true and the manager
\* constructed, every firing finds both and starts its call, and the
\* not-established line of the else branch is never logged.
C18_FiringAlwaysFindsGateOpen ==
    [][ /\ scheduled => (rpcConnected /\ transactionManager.constructed)
        /\ scheduled' => (rpcConnected' /\ transactionManager'.constructed)
        /\ CronFiring =>
              /\ rpcConnected
              /\ transactionManager.constructed
              /\ inFlight' = inFlight + 1
        /\ NotEstablishedLine \notin log' ]_vars

\* C18 witness: the task has fired, with the gate open and the manager in
\* place, and only the line of the transfer branch has been logged.
C18_Witness ==
    /\ pc = "running"
    /\ scheduled
    /\ cronFired
    /\ rpcConnected
    /\ transactionManager.constructed
    /\ "Running scheduled balance transfer" \in log
    /\ NotEstablishedLine \notin log

====
